---- MODULE Spec2Model ----
(***************************************************************************)
(* Model of src/lambda/proxy_function.py: the admission-control and        *)
(* metering proxy in front of the Bedrock agent.  Every Lambda invocation  *)
(* (lambda_handler) is a worker that walks through the handler's store     *)
(* round-trips one at a time; the Redis store, its key expiry and the      *)
(* clock are shared.  Each Redis round-trip is one atomic step, with the   *)
(* outcomes the client can observe: a reply, an error before the command   *)
(* ran, or an error after it ran (reply lost).                             *)
(***************************************************************************)
EXTENDS Integers, Sequences, FiniteSets, TLC

(***************************************************************************)
(* Bounds of the model.                                                    *)
(***************************************************************************)
NumWorkers == 2
MaxRequests == 2
TickStep == 60
MaxTime == 140
MaxFaults == 1
MaxSeqRequests == 7
StartTime == 20

(***************************************************************************)
(* Program constants.                                                      *)
(***************************************************************************)
window_size == 60
socket_timeout == 10
usage_minute_ttl == 3600

Workers == 1..NumWorkers
NoExpiry == -1
NoBucket == -1

(***************************************************************************)
(* Requests: headers and body of the event.  A header value is a sequence  *)
(* of text chunks, so that str.replace('Bearer ', '') has something to     *)
(* remove; the empty sequence is the empty string.                         *)
(***************************************************************************)
Bearer == "Bearer "
K1 == <<"k1">>
K2 == <<"k2">>
EmptyStr == <<>>

\* the events the model sends: identity by key, by bearer token, or none; and
\* bodies with and without the fields invoke_bedrock_agent requires
FullBody == [agentId |-> "a1", inputText |-> "hi"]
Events ==
    { [headers |-> ("x-api-key" :> K1), body |-> FullBody],
      [headers |-> ("Authorization" :> <<Bearer, "k1">>), body |-> [inputText |-> "hi"]],
      [headers |-> ("x-api-key" :> K1), body |-> [agentId |-> "a1", inputText |-> ""]],
      [headers |-> ("Authorization" :> <<Bearer, "k2">>), body |-> FullBody],
      [headers |-> ("Authorization" :> <<Bearer>>), body |-> FullBody],
      [headers |-> ("Content-Type" :> <<"application/json">>), body |-> FullBody] }

Identities == {K1, K2}
TierLabels == {"absent", "free", "premium", "enterprise", "gold"}

\* dict.get(key, default)
DictGet(d, k, default) == IF k \in DOMAIN d THEN d[k] ELSE default

\* str.replace(old, ''), on chunk sequences
RECURSIVE Replace(_, _)
Replace(s, old) ==
    IF s = <<>> THEN <<>>
    ELSE IF Head(s) = old THEN Replace(Tail(s), old)
         ELSE <<Head(s)>> \o Replace(Tail(s), old)

\* get_api_key: headers.get('x-api-key') or headers.get('Authorization','').replace('Bearer ','')
get_api_key(ev) ==
    LET headers == ev.headers
        x == DictGet(headers, "x-api-key", EmptyStr)
    IN  IF x # EmptyStr THEN x
        ELSE Replace(DictGet(headers, "Authorization", EmptyStr), Bearer)

(***************************************************************************)
(* The store.  A key is a record of the parts the f-strings put together;  *)
(* tag says whether the identity is wrapped in {braces}.                   *)
(***************************************************************************)
RateKey(api_key, t) ==
    [fam |-> "rate_limit", tag |-> TRUE, id |-> api_key, b |-> t \div window_size]

PrevKey(api_key, t) ==
    [fam |-> "rate_limit", tag |-> FALSE, id |-> api_key, b |-> (t \div window_size) - 1]

UsageMinuteKey(api_key, t) ==
    [fam |-> "usage:minute", tag |-> TRUE, id |-> api_key, b |-> t \div 60]

UsageHourKey(api_key, t) ==
    [fam |-> "usage:hour", tag |-> TRUE, id |-> api_key, b |-> t \div 3600]

UsageDailyKey(api_key, t) ==
    [fam |-> "usage:daily", tag |-> TRUE, id |-> api_key, b |-> t \div 86400]

UsageTotalKey(api_key) ==
    [fam |-> "usage:total", tag |-> TRUE, id |-> api_key, b |-> NoBucket]

\* GET: the value, or 0 where the code writes `or 0`
StoreGet(s, k) == IF k \in DOMAIN s THEN s[k].val ELSE 0

\* INCRBY n (DECR is INCRBY -1): an absent key starts at 0 and has no expiry
StoreIncrBy(s, k, n) ==
    IF k \in DOMAIN s THEN [s EXCEPT ![k].val = @ + n]
    ELSE s @@ (k :> [val |-> n, exp |-> NoExpiry])

\* DECR k that the store never applies
StoreDecrDropped(s, k) == s

\* DECR k
StoreDecr(s, k) == StoreIncrBy(s, k, -1)

\* EXPIRE k ttl, at time t
StoreExpire(s, k, ttl, t) ==
    IF k \in DOMAIN s THEN [s EXCEPT ![k].exp = t + ttl] ELSE s

\* keys whose expiry has passed are gone
StorePurge(s, t) ==
    LET live == {k \in DOMAIN s : s[k].exp = NoExpiry \/ s[k].exp > t}
    IN  [k \in live |-> s[k]]

VARIABLES
    now,        \* the clock, epoch seconds
    store,      \* Redis counters: key -> [val, exp]
    tierStore,  \* Redis user_tier:<id> entries: identity -> label
    pc,         \* worker -> position in lambda_handler
    event,      \* worker -> the event being handled
    loc,        \* worker -> locals of the handler
    resp,       \* worker -> the response returned
    aux,        \* worker -> history of the request being handled
    nreq,       \* number of requests received
    admitted,   \* <<identity, bucket>> -> requests the gate allowed
    gated,      \* <<identity, bucket>> -> requests that incremented the counter
    succeeded,  \* identity -> requests whose downstream call succeeded
    nfaults     \* number of store faults so far

vars == <<now, store, tierStore, pc, event, loc, resp, aux, nreq, admitted,
          gated, succeeded, nfaults>>

Buckets == 0..(MaxTime \div window_size)

NoEvent == [headers |-> <<>>, body |-> <<>>]
NoDecision == [allowed |-> FALSE, remaining |-> -1, reset_time |-> -1]
NoResp == [statusCode |-> 0, headers |-> <<>>, body |-> <<>>]
InitLoc ==
    [current_time |-> -1, max_requests |-> -1, current_count |-> 0,
     prev_count |-> 0, decided |-> FALSE, result |-> NoDecision, since |-> -1]
InitAux ==
    [ops |-> 0, incs |-> 0, decs |-> 0, invoked |-> 0, metered |-> 0,
     faults |-> {}, dsfail |-> FALSE]


(***************************************************************************)
(* Pure helpers of the handler.                                            *)
(***************************************************************************)
\* a table whose fallback is the 'free' cap
TierCapFallbackFree(label) ==
    LET user_tier == IF label = "absent" THEN "free" ELSE label
    IN  CASE user_tier = "free" -> 5
          [] user_tier = "premium" -> 60
          [] user_tier = "enterprise" -> 300
          [] OTHER -> 5

\* get_rate_limit_for_user: the label read (absent -> 'free') and the table
TierCap(label) ==
    LET user_tier == IF label = "absent" THEN "free" ELSE label
    IN  CASE user_tier = "free" -> 5
          [] user_tier = "premium" -> 60
          [] user_tier = "enterprise" -> 300
          [] OTHER -> 10

\* int(x / d) for the sign of x: Python's int() truncates toward zero
Trunc(x, d) == IF x >= 0 THEN x \div d ELSE -((-x) \div d)

\* The inputs <<prev_count, current_count, elapsed>> with both counts at most
\* 12 at which the double-precision evaluation of
\* prev_count * (1 - elapsed / 60) + current_count falls just below the exact
\* value, an integer there: 1 - 48/60 is 0.19999999999999996 and
\* 5 * 0.19999999999999996 + 1 is 1.9999999999999998.  With prev_count = 0
\* the evaluation is exact for every current_count.
FloatShort ==
    {<<5, 1, 48>>, <<6, 1, 50>>, <<10, 1, 48>>, <<10, 1, 54>>, <<10, 2, 48>>,
     <<12, 1, 25>>, <<12, 1, 50>>, <<12, 2, 50>>}

\* estimated_count = int(prev_count * (1 - elapsed_ratio) + current_count),
\* in double arithmetic: int() of a value just below an integer is one less
Estimate(prev_count, current_count, current_time) ==
    LET window_start == (current_time \div window_size) * window_size
        elapsed == current_time - window_start
        exact == Trunc(prev_count * (window_size - elapsed) + current_count * window_size,
                       window_size)
    IN  IF <<prev_count, current_count, elapsed>> \in FloatShort
        THEN exact - 1
        ELSE exact

Max(a, b) == IF a >= b THEN a ELSE b

\* the decision with >= in place of >
DecideOffByOne(estimated_count, max_requests, current_time) ==
    LET window_start == (current_time \div window_size) * window_size
    IN  IF estimated_count >= max_requests
        THEN [allowed |-> FALSE, remaining |-> 0,
              reset_time |-> window_start + window_size]
        ELSE [allowed |-> TRUE, remaining |-> Max(0, max_requests - estimated_count),
              reset_time |-> window_start + window_size]

\* the decision check_rate_limit returns from inside the try block
\* the decision that lets one request past the cap
DecideLenient(estimated_count, max_requests, current_time) ==
    LET window_start == (current_time \div window_size) * window_size
    IN  IF estimated_count > max_requests + 1
        THEN [allowed |-> FALSE, remaining |-> 0,
              reset_time |-> window_start + window_size]
        ELSE [allowed |-> TRUE, remaining |-> Max(0, max_requests - estimated_count),
              reset_time |-> window_start + window_size]

\* the decision with the reset time counted from the request, not the bucket
DecideResetNow(estimated_count, max_requests, current_time) ==
    IF estimated_count > max_requests
    THEN [allowed |-> FALSE, remaining |-> 0,
          reset_time |-> current_time + window_size]
    ELSE [allowed |-> TRUE, remaining |-> Max(0, max_requests - estimated_count),
          reset_time |-> current_time + window_size]

Decide(estimated_count, max_requests, current_time) ==
    LET window_start == (current_time \div window_size) * window_size
    IN  IF estimated_count > max_requests
        THEN [allowed |-> FALSE, remaining |-> 0,
              reset_time |-> window_start + window_size]
        ELSE [allowed |-> TRUE, remaining |-> Max(0, max_requests - estimated_count),
              reset_time |-> window_start + window_size]

\* the decision check_rate_limit returns from its except block
FailOpen(max_requests, current_time) ==
    [allowed |-> TRUE, remaining |-> max_requests,
     reset_time |-> current_time + window_size]

\* error_response(status_code, message, additional_headers)
error_response(status_code, message, additional_headers) ==
    [statusCode |-> status_code,
     headers |-> additional_headers @@ ("Content-Type" :> "application/json"),
     body |-> [error |-> message]]

\* except clauses that answer 500 whatever was caught
CaughtAlike(exc) == error_response(500, "Internal server error", <<>>)

\* the response of the handler's two except clauses
Caught(exc) ==
    IF exc = "RedisError"
    THEN error_response(503, "Service temporarily unavailable", <<>>)
    ELSE error_response(500, "Internal server error", <<>>)

\* the 429 the handler builds for a decision that is not allowed
RateLimited(d) ==
    error_response(429, "Rate limit exceeded",
        ("X-Rate-Limit-Remaining" :> "0") @@
        ("X-Rate-Limit-Reset" :> ToString(d.reset_time)))

\* the 200 the handler builds after invoke_bedrock_agent returned
Success(d, body) ==
    [statusCode |-> 200,
     headers |-> ("Content-Type" :> "application/json") @@
                 ("X-Rate-Limit-Remaining" :> ToString(d.remaining)) @@
                 ("X-Rate-Limit-Reset" :> ToString(d.reset_time)),
     body |-> [agentId |-> body.agentId, response |-> "text"]]

\* invoke_bedrock_agent: `if not agent_id or not input_text`
MissingField(body) ==
    \/ DictGet(body, "agentId", "") = ""
    \/ DictGet(body, "inputText", "") = ""

\* a handler that never misses the key
NoApiKeySkipped(api_key) == FALSE

\* lambda_handler: `if not api_key`
NoApiKey(api_key) == api_key = EmptyStr

\* a handler that ignores the decision
NotAllowedIgnored(d) == FALSE

\* lambda_handler: `if not rate_limit_result['allowed']`
NotAllowed(d) == ~d.allowed

\* socket_timeout with retry_on_timeout: a reply arrives within two timeouts
InTime(w) == now - loc[w].since <= 2 * socket_timeout

\* the steps of this request at which the store failed
Failed(fs, o, step) == IF o = "ok" THEN fs ELSE fs \cup {step}

\* a store fault: the model allows MaxFaults of them
Faults(o) ==
    /\ o # "ok" => nfaults < MaxFaults
    /\ nfaults' = IF o = "ok" THEN nfaults ELSE nfaults + 1

Bucket(w) == loc[w].current_time \div window_size
ApiKey(w) == get_api_key(event[w])

(***************************************************************************)
(* Initial state: idle workers, a clock at 0, and a store that holds the   *)
(* tier labels and whatever earlier requests of this minute left.          *)
(***************************************************************************)
PreStore(n) ==
    IF n = 0 THEN <<>>
    ELSE (RateKey(K1, 0) :> [val |-> n, exp |-> 2 * window_size]) @@
         (UsageMinuteKey(K1, 0) :> [val |-> n, exp |-> usage_minute_ttl]) @@
         (UsageHourKey(K1, 0) :> [val |-> n, exp |-> 86400 * 7]) @@
         (UsageDailyKey(K1, 0) :> [val |-> n, exp |-> 86400 * 30]) @@
         (UsageTotalKey(K1) :> [val |-> n, exp |-> NoExpiry])

InitWith(pre, tiers) ==
    /\ now = StartTime
    /\ store = PreStore(pre)
    /\ tierStore = tiers
    /\ pc = [w \in Workers |-> "idle"]
    /\ event = [w \in Workers |-> NoEvent]
    /\ loc = [w \in Workers |-> InitLoc]
    /\ resp = [w \in Workers |-> NoResp]
    /\ aux = [w \in Workers |-> InitAux]
    /\ nreq = 0
    /\ admitted = [k \in Identities \X Buckets |-> IF k = <<K1, 0>> THEN pre ELSE 0]
    /\ gated = [k \in Identities \X Buckets |-> IF k = <<K1, 0>> THEN pre ELSE 0]
    /\ succeeded = [i \in Identities |-> IF i = K1 THEN pre ELSE 0]
    /\ nfaults = 0

\* the stores the model starts from: tier labels that between them use every
\* label, and the counters four earlier requests of k1 left in this minute
FreeTiers == (K1 :> "free") @@ (K2 :> "premium")
InitChoices ==
    { <<0, FreeTiers>>,
      <<4, FreeTiers>>,
      <<4, (K1 :> "absent") @@ (K2 :> "enterprise")>>,
      <<0, (K1 :> "gold") @@ (K2 :> "free")>> }

Init == \E c \in InitChoices : InitWith(c[1], c[2])

(***************************************************************************)
(* lambda_handler, one action per store round-trip.                        *)
(***************************************************************************)
\* an event arrives and lambda_handler identifies the caller (lines 38-43);
\* the event goes to the first idle worker, which one runs it makes no difference
Accept(w, ev, limit) ==
    /\ pc[w] = "idle"
    /\ \A v \in Workers : v < w => pc[v] # "idle"
    /\ nreq < limit
    /\ nreq' = nreq + 1
    /\ event' = [event EXCEPT ![w] = ev]
    /\ loc' = [loc EXCEPT ![w] = [InitLoc EXCEPT !.since = now]]
    /\ aux' = [aux EXCEPT ![w] = InitAux]
    /\ IF NoApiKey(get_api_key(ev))
       THEN /\ resp' = [resp EXCEPT ![w] = error_response(401, "API Key required", <<>>)]
            /\ pc' = [pc EXCEPT ![w] = "done"]
       ELSE /\ resp' = [resp EXCEPT ![w] = NoResp]
            /\ pc' = [pc EXCEPT ![w] = "connect"]
    /\ UNCHANGED <<now, store, tierStore, admitted, gated, succeeded, nfaults>>

Receive(w, ev) == Accept(w, ev, MaxRequests)

\* line 46, get_redis_client: ping; then line 102 reads the clock
Connect(w, o) ==
    /\ pc[w] = "connect"
    /\ o \in {"ok", "down"}
    /\ o = "ok" => InTime(w)
    /\ aux' = [aux EXCEPT ![w].ops = @ + 1, ![w].faults = Failed(@, o, "connect")]
    /\ Faults(o)
    /\ IF o = "ok"
       THEN /\ pc' = [pc EXCEPT ![w] = "tier"]
            /\ loc' = [loc EXCEPT ![w].current_time = now, ![w].since = now]
            /\ UNCHANGED resp
       ELSE /\ pc' = [pc EXCEPT ![w] = "done"]
            /\ resp' = [resp EXCEPT ![w] = Caught("RedisError")]
            /\ UNCHANGED loc
    /\ UNCHANGED <<now, store, tierStore, event, nreq, admitted, gated, succeeded>>

\* line 104, get_rate_limit_for_user: outside check_rate_limit's try block
Tier(w, o) ==
    /\ pc[w] = "tier"
    /\ o \in {"ok", "down"}
    /\ o = "ok" => InTime(w)
    /\ aux' = [aux EXCEPT ![w].ops = @ + 1, ![w].faults = Failed(@, o, "tier")]
    /\ Faults(o)
    /\ IF o = "ok"
       THEN /\ pc' = [pc EXCEPT ![w] = "incr"]
            /\ loc' = [loc EXCEPT ![w].max_requests = TierCap(tierStore[ApiKey(w)]),
                                  ![w].since = now]
            /\ UNCHANGED resp
       ELSE /\ pc' = [pc EXCEPT ![w] = "done"]
            /\ resp' = [resp EXCEPT ![w] = Caught("RedisError")]
            /\ UNCHANGED loc
    /\ UNCHANGED <<now, store, tierStore, event, nreq, admitted, gated, succeeded>>

\* check_rate_limit returned d to lambda_handler (lines 49-55)
GateReturns(w, l, d) ==
    /\ loc' = [loc EXCEPT ![w] = [l EXCEPT !.decided = TRUE, !.result = d, !.since = now]]
    /\ admitted' = IF d.allowed
                   THEN [admitted EXCEPT ![<<ApiKey(w), Bucket(w)>>] = @ + 1]
                   ELSE admitted
    /\ IF NotAllowed(d)
       THEN /\ pc' = [pc EXCEPT ![w] = "done"]
            /\ resp' = [resp EXCEPT ![w] = RateLimited(d)]
       ELSE /\ pc' = [pc EXCEPT ![w] = "log"]
            /\ UNCHANGED resp

\* lines 110-122: MULTI, INCR key, EXPIRE key 120, EXEC
IncrBatch(w, o) ==
    /\ pc[w] = "incr"
    /\ o \in {"ok", "lost", "down"}
    /\ o = "ok" => InTime(w)
    /\ LET key == RateKey(ApiKey(w), loc[w].current_time)
           after == StoreExpire(StoreIncrBy(store, key, 1), key, window_size * 2, now)
       IN  /\ store' = IF o = "down" THEN store ELSE after
           /\ aux' = [aux EXCEPT ![w].ops = @ + 1, ![w].faults = Failed(@, o, "incr"),
                                 ![w].incs = IF o = "down" THEN @ ELSE @ + 1]
           /\ gated' = IF o = "down" THEN gated
                       ELSE [gated EXCEPT ![<<ApiKey(w), Bucket(w)>>] = @ + 1]
           /\ IF o = "ok"
              THEN /\ loc' = [loc EXCEPT ![w].current_count = after[key].val,
                                         ![w].since = now]
                   /\ pc' = [pc EXCEPT ![w] = "prev"]
                   /\ UNCHANGED <<resp, admitted>>
              ELSE GateReturns(w, loc[w], FailOpen(loc[w].max_requests, loc[w].current_time))
    /\ Faults(o)
    /\ UNCHANGED <<now, tierStore, event, nreq, succeeded>>

\* lines 125-136: GET prev_key, the estimate and the comparison with the cap
ReadPrev(w, o) ==
    /\ pc[w] = "prev"
    /\ o \in {"ok", "down"}
    /\ o = "ok" => InTime(w)
    /\ aux' = [aux EXCEPT ![w].ops = @ + 1, ![w].faults = Failed(@, o, "prev")]
    /\ Faults(o)
    /\ IF o = "ok"
       THEN LET prev_count == StoreGet(store, PrevKey(ApiKey(w), loc[w].current_time))
                estimated_count == Estimate(prev_count, loc[w].current_count,
                                            loc[w].current_time)
                l == [loc[w] EXCEPT !.prev_count = prev_count]
                d == Decide(estimated_count, loc[w].max_requests, loc[w].current_time)
            IN  IF ~d.allowed
                THEN /\ loc' = [loc EXCEPT ![w] = [l EXCEPT !.since = now]]
                     /\ pc' = [pc EXCEPT ![w] = "undo"]
                     /\ UNCHANGED <<resp, admitted>>
                ELSE GateReturns(w, l, d)
       ELSE GateReturns(w, loc[w], FailOpen(loc[w].max_requests, loc[w].current_time))
    /\ UNCHANGED <<now, store, tierStore, event, nreq, gated, succeeded>>

\* lines 136-143: DECR key, then the rejection
Undo(w, o) ==
    /\ pc[w] = "undo"
    /\ o \in {"ok", "lost", "down"}
    /\ o = "ok" => InTime(w)
    /\ LET key == RateKey(ApiKey(w), loc[w].current_time)
           estimated_count == Estimate(loc[w].prev_count, loc[w].current_count,
                                       loc[w].current_time)
       IN  /\ store' = IF o = "down" THEN store ELSE StoreDecr(store, key)
           /\ aux' = [aux EXCEPT ![w].ops = @ + 1, ![w].faults = Failed(@, o, "undo"),
                                 ![w].decs = IF o = "down" THEN @ ELSE @ + 1]
           /\ IF o = "ok"
              THEN GateReturns(w, loc[w], Decide(estimated_count, loc[w].max_requests,
                                                 loc[w].current_time))
              ELSE GateReturns(w, loc[w], FailOpen(loc[w].max_requests,
                                                   loc[w].current_time))
    /\ Faults(o)
    /\ UNCHANGED <<now, tierStore, event, nreq, gated, succeeded>>

\* the four increments of log_usage's MULTI/EXEC, at time t
\* a batch of which only the minute counter is applied
UsageBatchPartial(s, api_key, t) ==
    LET minute_key == UsageMinuteKey(api_key, t)
    IN  StoreExpire(StoreIncrBy(s, minute_key, 1), minute_key, usage_minute_ttl, t)

UsageBatch(s, api_key, t) ==
    LET minute_key == UsageMinuteKey(api_key, t)
        hour_key == UsageHourKey(api_key, t)
        daily_key == UsageDailyKey(api_key, t)
        total_key == UsageTotalKey(api_key)
        s1 == StoreExpire(StoreIncrBy(s, minute_key, 1), minute_key, usage_minute_ttl, t)
        s2 == StoreExpire(StoreIncrBy(s1, hour_key, 1), hour_key, 86400 * 7, t)
        s3 == StoreExpire(StoreIncrBy(s2, daily_key, 1), daily_key, 86400 * 30, t)
    IN  StoreIncrBy(s3, total_key, 1)

\* line 58, log_usage: no try block of its own
LogUsage(w, o) ==
    /\ pc[w] = "log"
    /\ o \in {"ok", "lost", "down"}
    /\ o = "ok" => InTime(w)
    /\ store' = IF o = "down" THEN store ELSE UsageBatch(store, ApiKey(w), now)
    /\ aux' = [aux EXCEPT ![w].ops = @ + 1, ![w].faults = Failed(@, o, "log"),
                          ![w].metered = IF o = "down" THEN @ ELSE @ + 1]
    /\ Faults(o)
    /\ loc' = [loc EXCEPT ![w].since = now]
    /\ IF o = "ok"
       THEN /\ pc' = [pc EXCEPT ![w] = "invoke"]
            /\ UNCHANGED resp
       ELSE /\ pc' = [pc EXCEPT ![w] = "done"]
            /\ resp' = [resp EXCEPT ![w] = Caught("RedisError")]
    /\ UNCHANGED <<now, tierStore, event, nreq, admitted, gated, succeeded>>

\* lines 67-83, invoke_bedrock_agent and the 200; its failures reach line 88
Invoke(w, o) ==
    /\ pc[w] = "invoke"
    /\ o \in {"ok", "fail"}
    /\ pc' = [pc EXCEPT ![w] = "done"]
    /\ loc' = [loc EXCEPT ![w].since = now]
    /\ IF MissingField(event[w].body)
       THEN /\ o = "fail"
            /\ resp' = [resp EXCEPT ![w] = Caught("Exception")]
            /\ aux' = [aux EXCEPT ![w].dsfail = TRUE]
            /\ UNCHANGED succeeded
       ELSE /\ aux' = [aux EXCEPT ![w].invoked = @ + 1, ![w].dsfail = (o = "fail")]
            /\ IF o = "ok"
               THEN /\ resp' = [resp EXCEPT ![w] = Success(loc[w].result, event[w].body)]
                    /\ succeeded' = [succeeded EXCEPT ![ApiKey(w)] = @ + 1]
               ELSE /\ resp' = [resp EXCEPT ![w] = Caught("Exception")]
                    /\ UNCHANGED succeeded
    /\ UNCHANGED <<now, store, tierStore, event, nreq, admitted, gated, nfaults>>

\* the response has been handed back; the worker takes the next event
Return(w) ==
    /\ pc[w] = "done"
    /\ pc' = [pc EXCEPT ![w] = "idle"]
    /\ event' = [event EXCEPT ![w] = NoEvent]
    /\ loc' = [loc EXCEPT ![w] = InitLoc]
    /\ resp' = [resp EXCEPT ![w] = NoResp]
    /\ aux' = [aux EXCEPT ![w] = InitAux]
    /\ UNCHANGED <<now, store, tierStore, nreq, admitted, gated, succeeded, nfaults>>

\* the clock advances and Redis drops the keys whose expiry has passed
Tick ==
    /\ now + TickStep <= MaxTime
    /\ now' = now + TickStep
    /\ store' = StorePurge(store, now + TickStep)
    /\ UNCHANGED <<tierStore, pc, event, loc, resp, aux, nreq, admitted, gated,
                   succeeded, nfaults>>

Next ==
    \/ \E w \in Workers, ev \in Events : Receive(w, ev)
    \/ \E w \in Workers, o \in {"ok", "down"} : Connect(w, o)
    \/ \E w \in Workers, o \in {"ok", "down"} : Tier(w, o)
    \/ \E w \in Workers, o \in {"ok", "lost", "down"} : IncrBatch(w, o)
    \/ \E w \in Workers, o \in {"ok", "down"} : ReadPrev(w, o)
    \/ \E w \in Workers, o \in {"ok", "lost", "down"} : Undo(w, o)
    \/ \E w \in Workers, o \in {"ok", "lost", "down"} : LogUsage(w, o)
    \/ \E w \in Workers, o \in {"ok", "fail"} : Invoke(w, o)
    \/ \E w \in Workers : Return(w)
    \/ Tick

Spec == Init /\ [][Next]_vars


(***************************************************************************)
(* Sequential traffic of one identity: one worker, one request at a time,  *)
(* a store that answers every command.                                     *)
(***************************************************************************)
SeqEvents == {ev \in Events : get_api_key(ev) = K1}

ReceiveSeq(ev) == Accept(1, ev, MaxSeqRequests)

InitSeq == InitWith(0, FreeTiers)

NextSeq ==
    \/ \E ev \in SeqEvents : ReceiveSeq(ev)
    \/ Connect(1, "ok")
    \/ Tier(1, "ok")
    \/ IncrBatch(1, "ok")
    \/ ReadPrev(1, "ok")
    \/ Undo(1, "ok")
    \/ LogUsage(1, "ok")
    \/ \E o \in {"ok", "fail"} : Invoke(1, o)
    \/ Return(1)
    \/ Tick

SpecSeq == InitSeq /\ [][NextSeq]_vars

(***************************************************************************)
(* Vocabulary of the properties.                                           *)
(***************************************************************************)
Done(w) == pc[w] = "done"
Busy(w) == pc[w] # "idle"
Status(w) == resp[w].statusCode
Rejected(w) == loc[w].decided /\ ~loc[w].result.allowed
Allowed(w) == loc[w].decided /\ loc[w].result.allowed
Cap(w) == TierCap(tierStore[ApiKey(w)])
WindowEnd(w) == (loc[w].current_time \div window_size) * window_size + window_size
GateSteps == {"tier", "incr", "prev", "undo"}

\* neither an x-api-key header nor a non-empty bearer credential
NoCallerIdentity(ev) ==
    /\ "x-api-key" \notin DOMAIN ev.headers
    /\ \/ "Authorization" \notin DOMAIN ev.headers
       \/ ev.headers["Authorization"] \in {<<>>, <<Bearer>>}

\* the body lacks agentId or inputText
LacksField(ev) ==
    \/ "agentId" \notin DOMAIN ev.body
    \/ "inputText" \notin DOMAIN ev.body
    \/ ev.body["inputText"] = ""

RateCounter(i, b) == RateKey(i, b * window_size)

\* a request has incremented the counter k and has not yet been decided
InFlight(k) ==
    \E w \in Workers :
        /\ pc[w] \in {"prev", "undo"}
        /\ RateKey(ApiKey(w), loc[w].current_time) = k

Quiescent == \A w \in Workers : pc[w] \in {"idle", "done"}

C2_MissingIdentity ==
    \A w \in Workers :
        (Busy(w) /\ NoCallerIdentity(event[w])) =>
            /\ Done(w)
            /\ Status(w) = 401
            /\ aux[w].ops = 0
            /\ aux[w].incs = 0
            /\ aux[w].metered = 0
            /\ aux[w].invoked = 0

C2_Witness ==
    \E w \in Workers :
        /\ Done(w) /\ NoCallerIdentity(event[w]) /\ Status(w) = 401
        /\ "Authorization" \in DOMAIN event[w].headers

(***************************************************************************)
(* C3.  Only a request the gate allowed is metered and passed downstream;  *)
(* a request the gate rejected is finished at once with 429, remaining 0   *)
(* and the reset time, and is neither invoked nor metered.                 *)
(***************************************************************************)
C3_OnlyAllowedInvoked ==
    \A w \in Workers :
        /\ (pc[w] \in {"log", "invoke"} \/ aux[w].invoked > 0 \/ aux[w].metered > 0)
               => Allowed(w)
        /\ Rejected(w) =>
               /\ Done(w)
               /\ Status(w) = 429
               /\ resp[w].headers["X-Rate-Limit-Remaining"] = "0"
               /\ resp[w].headers["X-Rate-Limit-Reset"] = ToString(WindowEnd(w))
               /\ aux[w].invoked = 0
               /\ aux[w].metered = 0

C3_Witness ==
    \E w \in Workers : Rejected(w) /\ Done(w) /\ Status(w) = 429


(***************************************************************************)
(* C4.  A store error at any step of the sliding-window gate (tier lookup, *)
(* increment batch, previous-window read, undo decrement) lets the request *)
(* through with remaining = cap, and the request goes on to the downstream *)
(* call.                                                                   *)
(***************************************************************************)
C4_FailOpenAtEveryStep ==
    \A w \in Workers :
        (aux[w].faults \cap GateSteps # {}) =>
            /\ Allowed(w)
            /\ loc[w].result.remaining = Cap(w)
            /\ pc[w] \in {"log", "invoke", "done"}
            /\ Done(w) => Status(w) \in {200, 500}

(***************************************************************************)
(* C5.  Rollback on rejection is net-zero: a rejected request made exactly *)
(* one increment and one decrement of its counter, and without store       *)
(* faults a counter that no request is in the middle of deciding on equals *)
(* the number of requests admitted in its bucket.                          *)
(***************************************************************************)
C5_RollbackNetZero ==
    /\ \A w \in Workers : Rejected(w) => aux[w].incs = 1 /\ aux[w].decs = 1
    /\ nfaults = 0 =>
           \A i \in Identities, b \in Buckets :
               (RateCounter(i, b) \in DOMAIN store /\ ~InFlight(RateCounter(i, b)))
                   => store[RateCounter(i, b)].val = admitted[<<i, b>>]

C5_Witness ==
    \E w \in Workers, v \in Workers :
        /\ w # v /\ nfaults = 0
        /\ Done(w) /\ Rejected(w)
        /\ pc[v] = "log" /\ Allowed(v)
        /\ ApiKey(v) = ApiKey(w) /\ Bucket(v) = Bucket(w)
        /\ RateCounter(ApiKey(w), Bucket(w)) \in DOMAIN store
        /\ store[RateCounter(ApiKey(w), Bucket(w))].val = 5
        /\ admitted[<<ApiKey(w), Bucket(w)>>] = 5

(***************************************************************************)
(* C6.  When the downstream call fails after admission, the caller gets a  *)
(* 500-class response and every increment made for the request has been    *)
(* undone by one decrement.                                                *)
(***************************************************************************)
C6_RollbackOnDownstreamFailure ==
    \A w \in Workers :
        (Done(w) /\ aux[w].invoked > 0 /\ aux[w].dsfail) =>
            /\ Status(w) \in {500, 503}
            /\ aux[w].decs = aux[w].incs

(***************************************************************************)
(* C7.  Only successful requests are metered: a request whose downstream   *)
(* call failed added nothing to the usage counters, and when no request is *)
(* running the usage total of an identity is the number of its requests    *)
(* whose downstream call succeeded.                                        *)
(***************************************************************************)
C7_OnlySuccessMetered ==
    /\ \A w \in Workers : (Done(w) /\ aux[w].dsfail) => aux[w].metered = 0
    /\ Quiescent =>
           \A i \in Identities : StoreGet(store, UsageTotalKey(i)) = succeeded[i]

(***************************************************************************)
(* C8.  The usage meter never rejects: a request whose metering batch      *)
(* failed still goes on to the downstream call.                            *)
(***************************************************************************)
C8_MeterNeverRejects ==
    \A w \in Workers :
        ("log" \in aux[w].faults) =>
            \/ pc[w] = "invoke"
            \/ Done(w) /\ Status(w) \in {200, 500}

(***************************************************************************)
(* C9.  A request with an identity but without agentId or inputText is     *)
(* rejected before any store access: no store operation, no admission      *)
(* increment, no usage increment.                                          *)
(***************************************************************************)
C9_MissingFieldBeforeStore ==
    \A w \in Workers :
        (Busy(w) /\ ~NoCallerIdentity(event[w]) /\ LacksField(event[w])) =>
            /\ aux[w].ops = 0
            /\ aux[w].incs = 0
            /\ aux[w].metered = 0

(***************************************************************************)
(* C10.  Every finished request has exactly one well-formed response whose *)
(* status follows from its path: 401 without identity, 429 when the gate   *)
(* rejected, 200 when the downstream call succeeded, 500 when it failed,   *)
(* 503 when the store failed outside the gate's fallback; 500 and 503      *)
(* carry a generic message; no step of the handler runs twice.             *)
(***************************************************************************)
WellFormed(r) ==
    /\ r.statusCode \in {200, 401, 429, 500, 503}
    /\ "Content-Type" \in DOMAIN r.headers
    /\ r.statusCode = 200 =>
           {"X-Rate-Limit-Remaining", "X-Rate-Limit-Reset"} \subseteq DOMAIN r.headers
    /\ r.statusCode # 200 => DOMAIN r.body = {"error"}
    /\ r.statusCode = 500 => r.body.error = "Internal server error"
    /\ r.statusCode = 503 => r.body.error = "Service temporarily unavailable"

C10_OneResponsePerPath ==
    \A w \in Workers :
        /\ ~Done(w) => resp[w] = NoResp
        /\ aux[w].invoked <= 1 /\ aux[w].metered <= 1
        /\ aux[w].incs <= 1 /\ aux[w].decs <= 1 /\ aux[w].ops <= 6
        /\ Done(w) =>
               /\ WellFormed(resp[w])
               /\ Status(w) = 401 <=> NoCallerIdentity(event[w])
               /\ Status(w) = 429 <=> Rejected(w)
               /\ Status(w) = 200 <=> (aux[w].invoked = 1 /\ ~aux[w].dsfail)
               /\ Status(w) = 500 <=> aux[w].dsfail
               /\ Status(w) = 503 <=> (aux[w].faults \cap {"connect", "tier", "log"} # {})

C10_Witness ==
    \E w \in Workers, v \in Workers :
        /\ Done(w) /\ Status(w) = 503 /\ "log" \in aux[w].faults
        /\ Done(v) /\ Status(v) = 500 /\ aux[v].invoked = 1


(***************************************************************************)
(* C11.  The tier resolver gives cap 5 for an absent label and for 'free', *)
(* 60 for 'premium', 300 for 'enterprise' and 10 for any other label; the  *)
(* lookup is one store read (the second round-trip of the request, after   *)
(* the connection) and changes nothing in the store.                       *)
(***************************************************************************)
ExpectedCap(label) ==
    IF label \in {"absent", "free"} THEN 5
    ELSE IF label = "premium" THEN 60
    ELSE IF label = "enterprise" THEN 300
    ELSE 10

Resolved(w) == pc[w] \in {"incr", "prev", "undo", "log", "invoke"}

RPM_LIMIT == 100
TPM_LIMIT == 10000
token_divisor == 4
dual_ttl == 60
MaxDualRequests == 4
PromptLens == {44000, 16000}

TokenCost(prompt_len) == prompt_len \div token_divisor

RpmKey(api_key, t) == [fam |-> "rpm", tag |-> TRUE, id |-> api_key, b |-> t \div window_size]
TpmKey(api_key, t) == [fam |-> "tpm", tag |-> TRUE, id |-> api_key, b |-> t \div window_size]

\* a decrement by one where the cost was added
StoreDecrByOne(s, k, n) == StoreIncrBy(s, k, -1)

StoreDecrBy(s, k, n) == StoreIncrBy(s, k, -n)

InitDualLoc ==
    [token_cost |-> 0, rpm_after |-> -1, tpm_after |-> -1, tpm_before |-> -1,
     rolled_back |-> FALSE, outcome |-> "none", since |-> -1]

\* the two budgets' counters as earlier requests of the bucket left them
DualPreStore(rpm, tpm) ==
    IF rpm = 0 THEN <<>>
    ELSE (RpmKey(K1, 0) :> [val |-> rpm, exp |-> dual_ttl])
         @@ (TpmKey(K1, 0) :> [val |-> tpm, exp |-> dual_ttl])

InitDual ==
    /\ now = StartTime
    /\ \E pre \in {<<0, 0>>, <<RPM_LIMIT - 1, 2000>>} : store = DualPreStore(pre[1], pre[2])
    /\ tierStore = FreeTiers
    /\ pc = [w \in Workers |-> "idle"]
    /\ event = [w \in Workers |-> NoEvent]
    /\ loc = [w \in Workers |-> InitDualLoc]
    /\ resp = [w \in Workers |-> NoResp]
    /\ aux = [w \in Workers |-> InitAux]
    /\ nreq = 0
    /\ admitted = [k \in Identities \X Buckets |-> 0]
    /\ gated = [k \in Identities \X Buckets |-> 0]
    /\ succeeded = [i \in Identities |-> 0]
    /\ nfaults = 0

ReceiveDual(prompt_len) ==
    /\ pc[1] = "idle"
    /\ nreq < MaxDualRequests
    /\ nreq' = nreq + 1
    /\ event' = [event EXCEPT ![1] = [headers |-> <<<<"x-api-key", K1>>>>,
                                      body |-> <<<<"prompt", prompt_len>>>>]]
    /\ loc' = [loc EXCEPT ![1] = [InitDualLoc EXCEPT !.token_cost = TokenCost(prompt_len),
                                                     !.since = now]]
    /\ pc' = [pc EXCEPT ![1] = "dual"]
    /\ UNCHANGED <<now, store, tierStore, resp, aux, admitted, gated, succeeded, nfaults>>

\* one atomic batch: INCR rpm, EXPIRE, INCRBY tpm tokenCost, EXPIRE; then the decision
DualBatch(o) ==
    /\ pc[1] = "dual"
    /\ o = "ok" => InTime(1)
    /\ IF o = "ok"
       THEN LET rk == RpmKey(K1, now)
                tk == TpmKey(K1, now)
                s1 == StoreExpire(StoreIncrBy(store, rk, 1), rk, dual_ttl, now)
                s2 == StoreExpire(StoreIncrBy(s1, tk, loc[1].token_cost), tk, dual_ttl, now)
                rpmAfter == s2[rk].val
                tpmAfter == s2[tk].val
            IN  /\ store' = s2
                /\ loc' = [loc EXCEPT ![1].rpm_after = rpmAfter,
                                      ![1].tpm_after = tpmAfter,
                                      ![1].tpm_before = StoreGet(store, tk),
                                      ![1].outcome =
                                          IF rpmAfter > RPM_LIMIT THEN "RateExceeded"
                                          ELSE IF tpmAfter > TPM_LIMIT THEN "none"
                                          ELSE "accept"]
                /\ pc' = [pc EXCEPT ![1] =
                             IF rpmAfter <= RPM_LIMIT /\ tpmAfter > TPM_LIMIT
                             THEN "dualundo" ELSE "done"]
       ELSE /\ store' = store
            /\ loc' = [loc EXCEPT ![1].outcome = "StoreUnavailable"]
            /\ pc' = [pc EXCEPT ![1] = "done"]
    /\ UNCHANGED <<now, tierStore, event, resp, aux, nreq, admitted, gated, succeeded, nfaults>>

\* the compensating DECRBY tokenCost, then the token-limit rejection
DualUndo(o) ==
    /\ pc[1] = "dualundo"
    /\ o = "ok" => InTime(1)
    /\ IF o = "ok"
       THEN /\ store' = StoreDecrBy(store, TpmKey(K1, now), loc[1].token_cost)
            /\ loc' = [loc EXCEPT ![1].rolled_back = TRUE,
                                  ![1].outcome = "TokenBudgetExceeded"]
       ELSE /\ store' = store
            /\ loc' = [loc EXCEPT ![1].outcome = "TokenBudgetExceeded"]
    /\ pc' = [pc EXCEPT ![1] = "done"]
    /\ UNCHANGED <<now, tierStore, event, resp, aux, nreq, admitted, gated, succeeded, nfaults>>

DualReturn ==
    /\ pc[1] = "done"
    /\ pc' = [pc EXCEPT ![1] = "idle"]
    /\ event' = [event EXCEPT ![1] = NoEvent]
    /\ loc' = [loc EXCEPT ![1] = InitDualLoc]
    /\ UNCHANGED <<now, store, tierStore, resp, aux, nreq, admitted, gated, succeeded, nfaults>>

NextDual ==
    \/ \E n \in PromptLens : ReceiveDual(n)
    \/ \E o \in {"ok", "down"} : DualBatch(o)
    \/ \E o \in {"ok", "down"} : DualUndo(o)
    \/ DualReturn
    \/ Tick

SpecDual == InitDual /\ [][NextDual]_vars

(***************************************************************************)
(* C12.  With the dual-budget gate, a request whose token cost takes the   *)
(* tpm counter past TPM_LIMIT while rpm is within RPM_LIMIT is rejected    *)
(* with TokenBudgetExceeded, and once the compensating decrement by the    *)
(* token cost has been applied the tpm counter of the bucket has its       *)
(* pre-request value again.                                                *)
(***************************************************************************)
C12_TokenBudgetRollback ==
    (/\ pc[1] = "done"
     /\ loc[1].rpm_after \in 1..RPM_LIMIT
     /\ loc[1].tpm_after > TPM_LIMIT)
    => /\ loc[1].outcome = "TokenBudgetExceeded"
       /\ (loc[1].rolled_back /\ loc[1].since = now) =>
              StoreGet(store, TpmKey(K1, now)) = loc[1].tpm_before

C12_Witness ==
    /\ pc[1] = "done"
    /\ loc[1].token_cost = 11000
    /\ loc[1].rpm_after = 1
    /\ loc[1].tpm_before = 0
    /\ loc[1].outcome = "TokenBudgetExceeded"
    /\ loc[1].rolled_back
    /\ TpmKey(K1, now) \in DOMAIN store
    /\ store[TpmKey(K1, now)].val = 0


(***************************************************************************)
(* C13.  The previous count the sliding-window gate reads is the gate's    *)
(* own counter of the preceding bucket: a request of bucket N that reads   *)
(* its previous count gets the value of the key that requests of bucket    *)
(* N-1 incremented as their current counter (0 only if that key is gone).  *)
(***************************************************************************)
C13_PrevIsOwnCounter ==
    [][\A w \in Workers :
          (pc[w] = "prev" /\ pc'[w] # "prev" /\ "prev" \notin aux'[w].faults) =>
              loc'[w].prev_count = StoreGet(store, RateCounter(ApiKey(w), Bucket(w) - 1))]_vars


(***************************************************************************)
(* The estimate as a function of its inputs: the previous count, the       *)
(* current count and the second of the bucket are drawn from bounded sets  *)
(* and lines 130-149 are applied to them.                                  *)
(***************************************************************************)
MaxPrev == 6
MaxCur == 3
EstCaps == {5, 10}

InitEstLoc ==
    [current_time |-> -1, max_requests |-> -1, current_count |-> 0, prev_count |-> 0,
     estimated_count |-> -1, decided |-> FALSE, result |-> NoDecision, since |-> -1]

InitEst ==
    /\ now \in 0..(window_size - 1)
    /\ store = <<>>
    /\ tierStore = FreeTiers
    /\ pc = [w \in Workers |-> IF w = 1 THEN "prev" ELSE "idle"]
    /\ event = [w \in Workers |-> NoEvent]
    /\ \E p \in 0..MaxPrev, c \in 1..MaxCur, m \in EstCaps :
          loc = [w \in Workers |->
                   IF w = 1
                   THEN [InitEstLoc EXCEPT !.current_time = now, !.max_requests = m,
                                           !.current_count = c, !.prev_count = p,
                                           !.since = now]
                   ELSE InitEstLoc]
    /\ resp = [w \in Workers |-> NoResp]
    /\ aux = [w \in Workers |-> InitAux]
    /\ nreq = 1
    /\ admitted = [k \in Identities \X Buckets |-> 0]
    /\ gated = [k \in Identities \X Buckets |-> 0]
    /\ succeeded = [i \in Identities |-> 0]
    /\ nfaults = 0

Evaluate ==
    /\ pc[1] = "prev"
    /\ LET estimated_count == Estimate(loc[1].prev_count, loc[1].current_count,
                                       loc[1].current_time)
       IN  loc' = [loc EXCEPT ![1].estimated_count = estimated_count,
                              ![1].decided = TRUE,
                              ![1].result = Decide(estimated_count, loc[1].max_requests,
                                                   loc[1].current_time)]
    /\ pc' = [pc EXCEPT ![1] = "done"]
    /\ UNCHANGED <<now, store, tierStore, event, resp, aux, nreq, admitted, gated,
                   succeeded, nfaults>>

NextEst == Evaluate

SpecEst == InitEst /\ [][NextEst]_vars

(***************************************************************************)
(* C14.  The estimate is floor(prevCount * (1 - elapsed/60) + currentCount)*)
(* for elapsed = 0..59: it is prevCount + currentCount at elapsed 0, does  *)
(* not increase as elapsed grows, lies between currentCount and            *)
(* currentCount + prevCount, and is currentCount at the end of the bucket. *)
(***************************************************************************)
ExactFloor(p, c, e) == (p * (window_size - e) + c * window_size) \div window_size

C14_EstimateShape ==
    pc[1] = "done" =>
        LET p == loc[1].prev_count
            c == loc[1].current_count
            e == loc[1].current_time % window_size
            est == loc[1].estimated_count
        IN  /\ est = ExactFloor(p, c, e)
            /\ e = 0 => est = p + c
            /\ c <= est /\ est <= c + p
            /\ \A e2 \in e..(window_size - 1) : Estimate(p, c, e2) <= est
            /\ Estimate(p, c, window_size - 1) = c


(***************************************************************************)
(* C15.  Every decision the sliding-window gate returns, allowed or        *)
(* rejected, has resetTime = windowStart + windowSize and a non-negative   *)
(* remaining: 0 when rejected, max(0, cap - estimate) when allowed.        *)
(***************************************************************************)
EstimateOf(w) == Estimate(loc[w].prev_count, loc[w].current_count, loc[w].current_time)

ComputedShape(w) ==
    /\ loc[w].result.reset_time = WindowEnd(w)
    /\ loc[w].result.remaining >= 0
    /\ ~loc[w].result.allowed => loc[w].result.remaining = 0
    /\ loc[w].result.allowed =>
           loc[w].result.remaining = Max(0, loc[w].max_requests - EstimateOf(w))

C15_EveryDecision == \A w \in Workers : loc[w].decided => ComputedShape(w)

\* C15, amended: every decision the gate returns without a store error has
\* the claimed shape and is allowed exactly when the estimate is within the
\* cap; a decision returned after a store error in the gate is the fail-open
\* one: allowed, remaining = cap, resetTime = current time + windowSize.
GateFault(w) == aux[w].faults \cap {"incr", "prev", "undo"} # {}

C15_DecisionShape ==
    \A w \in Workers :
        loc[w].decided =>
            IF GateFault(w)
            THEN /\ loc[w].result.allowed
                 /\ loc[w].result.remaining = loc[w].max_requests
                 /\ loc[w].result.reset_time = loc[w].current_time + window_size
            ELSE /\ ComputedShape(w)
                 /\ loc[w].result.allowed <=> EstimateOf(w) <= loc[w].max_requests

C15_Witness ==
    \E w \in Workers, v \in Workers :
        /\ loc[w].decided /\ GateFault(w) /\ loc[w].result.allowed
        /\ loc[w].result.reset_time # WindowEnd(w)
        /\ loc[v].decided /\ ~GateFault(v) /\ ~loc[v].result.allowed
        /\ loc[v].result.reset_time = WindowEnd(v)
        /\ loc[v].result.remaining = 0


(***************************************************************************)
(* C16.  The usage meter adds exactly 1 to the minute, hour, day and total *)
(* counters of the identity as one atomic batch: in every state, whatever  *)
(* other requests are doing, the four counters agree (the total, the hour  *)
(* and the day counter equal the sum of the minute counters), and no step  *)
(* changes a usage counter by anything but +1.  The total counter has no   *)
(* expiry; the minute, hour and day counters expire 3600 s, 7 days and     *)
(* 30 days after the last batch.                                           *)
(***************************************************************************)
RECURSIVE SumMinutes(_, _)
SumMinutes(i, b) ==
    IF b < 0 THEN 0
    ELSE StoreGet(store, UsageMinuteKey(i, b * window_size)) + SumMinutes(i, b - 1)

UsageFamilies == {"usage:minute", "usage:hour", "usage:daily", "usage:total"}

UsageAgrees(i) ==
    LET total == StoreGet(store, UsageTotalKey(i))
    IN  /\ StoreGet(store, UsageHourKey(i, now)) = total
        /\ StoreGet(store, UsageDailyKey(i, now)) = total
        /\ SumMinutes(i, MaxTime \div window_size) = total
        /\ UsageTotalKey(i) \in DOMAIN store => store[UsageTotalKey(i)].exp = NoExpiry
        /\ total > 0 =>
               \E t \in 0..now :
                   /\ UsageMinuteKey(i, t) \in DOMAIN store
                   /\ store[UsageMinuteKey(i, t)].exp = t + 3600
                   /\ store[UsageHourKey(i, now)].exp = t + 7 * 86400
                   /\ store[UsageDailyKey(i, now)].exp = t + 30 * 86400

C16_AtomicUsageBatch ==
    /\ [](\A i \in Identities : UsageAgrees(i))
    /\ [][\A k \in DOMAIN store' :
            k.fam \in UsageFamilies =>
                StoreGet(store', k) - StoreGet(store, k) \in {0, 1}]_vars

C16_Witness ==
    \E w \in Workers, v \in Workers :
        /\ pc[w] = "invoke" /\ pc[v] = "log" /\ ApiKey(w) = ApiKey(v)
        /\ aux[w].metered = 1
        /\ StoreGet(store, UsageTotalKey(ApiKey(w))) = 1
        /\ StoreGet(store, UsageMinuteKey(ApiKey(w), now)) = 1
        /\ StoreGet(store, UsageHourKey(ApiKey(w), now)) = 1
        /\ StoreGet(store, UsageDailyKey(ApiKey(w), now)) = 1


(***************************************************************************)
(* C17.  Under any interleaving of concurrent requests of one identity in  *)
(* one bucket, with no store fault and no previous-window count, the       *)
(* number of requests admitted never exceeds the cap: a request is         *)
(* admitted only if the counter value its increment returned is at most    *)
(* the cap, and while a request is between its increment and its decision  *)
(* the counter is at least the number admitted so far plus that request's  *)
(* own increment.                                                          *)
(***************************************************************************)
C17_AdmittedWithinCap ==
    nfaults = 0 =>
        /\ \A i \in Identities, b \in Buckets :
               admitted[<<i, b>>] <= TierCap(tierStore[i])
        /\ \A w \in Workers :
               /\ Allowed(w) =>
                      /\ loc[w].prev_count = 0
                      /\ loc[w].current_count >= 1
                      /\ loc[w].current_count <= loc[w].max_requests
               /\ (pc[w] \in {"prev", "undo"} /\ InTime(w)) =>
                      /\ RateCounter(ApiKey(w), Bucket(w)) \in DOMAIN store
                      /\ store[RateCounter(ApiKey(w), Bucket(w))].val
                             >= admitted[<<ApiKey(w), Bucket(w)>>] + 1

C17_Witness ==
    \E w \in Workers, v \in Workers :
        /\ nfaults = 0
        /\ ApiKey(v) = ApiKey(w) /\ Bucket(v) = Bucket(w)
        /\ pc[w] = "undo" /\ loc[w].current_count = Cap(w) + 1
        /\ pc[v] = "log" /\ Allowed(v) /\ loc[v].current_count = Cap(v)
        /\ admitted[<<ApiKey(w), Bucket(w)>>] = Cap(w)
        /\ store[RateCounter(ApiKey(w), Bucket(w))].val = Cap(w) + 1


(***************************************************************************)
(* C18.  In every reachable state, under any interleaving and any timing   *)
(* of key expiry between a request's increment and its compensating        *)
(* decrement, the rate-window counter of each (identity, bucket) is never  *)
(* negative and never exists without an expiry.                            *)
(***************************************************************************)
C18_CounterNonNegativeWithExpiry ==
    \A k \in DOMAIN store :
        k.fam = "rate_limit" => store[k].val >= 0 /\ store[k].exp # NoExpiry

====
